---- MODULE Spec2Model ----
(***************************************************************************)
(* The honeymail SMTP daemon: the listener's accept loop, the per-         *)
(* connection session (handleTCPConnection), the live-connection table     *)
(* with its mutex, and the two unbuffered handoffs ingest -> enrichment -> *)
(* storage.                                                                *)
(*                                                                         *)
(* smtpd/server.go and main.go are modelled from the source.  The session  *)
(* object (clientSession: verifyState, markState, reset, ...), the command *)
(* parser (ParseCmd), the reply texts (k... constants), the envelope       *)
(* package and the enrichment and storage workers are not among the        *)
(* source files; they are modelled from the specification's sections 3    *)
(* and 4.                                                                  *)
(***************************************************************************)
EXTENDS Integers, Sequences, FiniteSets, TLC

(***************************************************************************)
(* Bounds of the model.                                                    *)
(***************************************************************************)
\* connections the clients open during a run
MaxConns == 2
\* envelopes the id generator hands out during a run
MaxIds == 3
\* additional recipients (forwards) a client gives for one envelope
MaxForwards == 1
\* inputs the scripted client of SpecScenario sends
MaxScript == 6

(***************************************************************************)
(* Program constants.                                                      *)
(***************************************************************************)
\* smtp.max_client_connections (server.go:29); a configuration option
maxClientConnections == 1
\* "close connection in case of 5 consecutive errors" (server.go:212)
kMaxCommandErrors == 5

\* the connections clients open to the plain port
Conns == 1..MaxConns

\* the listeners (specification 4.3): the plain port and, when a certificate
\* and key are configured, the implicit-TLS port
Listeners == {"plain", "tls"}

\* the connection a client opens to the implicit-TLS port
TLSConn == MaxConns + 1

Sockets == Conns \cup {TLSConn}

\* the listener that accepts connection c
ListenerOf(c) == IF c \in Conns THEN "plain" ELSE "tls"

\* client.conn.RemoteAddr().String() (server.go:133): the key of the table.
\* Connections of one listener that are open together have distinct remote
\* addresses; the client of TLSConn connects from the host and port from
\* which connection 1 reached the plain port.
RemoteAddr(c) == 4000 + (IF c \in Conns THEN c ELSE 1)

(***************************************************************************)
(* Replies.  A reply line is NNN<sep><text>; sep is " " (last line) or "-" *)
(* (continuation).  id is the envelope id printed by "queued as", 0 when   *)
(* the line carries none.                                                  *)
(***************************************************************************)
Reply(code, sep, text) == [code |-> code, sep |-> sep, text |-> text, id |-> 0]

kGreeting == Reply(220, " ", "ESMTP")
kSyntaxError == Reply(500, " ", "Syntax error, command unrecognized")
kBadCommandSequence == Reply(503, " ", "Bad command sequence")
kRequestAborted == Reply(451, " ", "Requested action aborted")
kRecipientAccepted == Reply(250, " ", "OK")
kNoopCommand == Reply(250, " ", "OK")
kVerifyAddress == Reply(252, " ", "Cannot VRFY")
kCommandNotImplemented == Reply(502, " ", "Not implemented")
kSendData == Reply(354, " ", "Start mail input; end with <CRLF>.<CRLF>")
kClosingConnection == Reply(221, " ", "Bye")
kMessageAccepted(id) == [code |-> 250, sep |-> " ", text |-> "OK: queued as", id |-> id]

(***************************************************************************)
(* The command parser (specification 4.1).  A request line is its verb     *)
(* text and its argument text.  Matching is case-insensitive on the verb;  *)
(* angle brackets around the argument are stripped.                        *)
(***************************************************************************)
Verbs == {"HELO", "EHLO", "MAILFROM", "RCPTTO", "DATA", "RSET", "NOOP",
          "VRFY", "EXPN", "HELP", "QUIT", "STARTTLS", "AUTH"}

\* the verb texts a client may put on the wire and the verb each one names
VerbOf(text) ==
  CASE text \in {"HELO", "helo"} -> "HELO"
    [] text = "EHLO" -> "EHLO"
    [] text \in {"MAIL FROM:", "mail from:"} -> "MAILFROM"
    [] text = "RCPT TO:" -> "RCPTTO"
    [] text = "DATA" -> "DATA"
    [] text = "RSET" -> "RSET"
    [] text = "NOOP" -> "NOOP"
    [] text = "VRFY" -> "VRFY"
    [] text = "EXPN" -> "EXPN"
    [] text = "HELP" -> "HELP"
    [] text \in {"QUIT", "quit"} -> "QUIT"
    [] text = "STARTTLS" -> "STARTTLS"
    [] text = "AUTH" -> "AUTH"
    [] OTHER -> ""

StripBrackets(arg) ==
  CASE arg = "<a@b>" -> "a@b"
    [] arg = "<c@d>" -> "c@d"
    [] arg = "<e@f>" -> "e@f"
    [] arg = "<bogus>" -> "bogus"
    [] OTHER -> arg

Line(verb, arg) == [verb |-> verb, arg |-> arg]

\* ReadLine failed (EOF, deadline): the line handed to the parser is empty
EmptyLine == Line("", "")

\* command.Response == "": the parser accepted the line
NoResponse == Reply(0, "", "")

ParseCmd(line) ==
  IF VerbOf(line.verb) \in Verbs
    THEN [Cmd |-> VerbOf(line.verb), Argument |-> StripBrackets(line.arg),
          Response |-> NoResponse]
    ELSE [Cmd |-> "", Argument |-> "", Response |-> kSyntaxError]

\* mail.ParseAddress: a mailbox needs a local part, "@" and a domain
Mailboxes == {"a@b", "c@d", "e@f"}
verifyEmailAddress(email) ==
  IF email \in Mailboxes THEN [ok |-> TRUE, addr |-> email]
                         ELSE [ok |-> FALSE, addr |-> ""]

(***************************************************************************)
(* The envelope.  "" is an unset mailbox (a nil *mail.Address); <<>> is a  *)
(* nil or zero-length Message.                                             *)
(***************************************************************************)
NoAddress == ""

\* the n-th id the generator goroutine sends: the SHA-1 digest after n
\* writes of the seed, distinct for distinct n
idGenerator(n) == n

NewEnvelope(clientId, id) ==
  [Id |-> id, RemoteAddress |-> clientId, From |-> NoAddress, To |-> NoAddress,
   Forwards |-> <<>>, Message |-> <<>>, SecurelyDelivered |-> FALSE]

NoEnvelope == NewEnvelope(0, 0)

\* A DATA body on the wire: its lines before the terminating lone dot, each
\* line a sequence of characters.  A line that starts with a dot was sent
\* with the dot doubled.
ReadDotBytes(wire) ==
  [i \in 1..Len(wire) |->
     IF wire[i] # <<>> /\ Head(wire[i]) = "." THEN Tail(wire[i]) ELSE wire[i]]

(***************************************************************************)
(* The session object (specification 4.2): sequence-state, the flags and   *)
(* the sequence table.                                                     *)
(***************************************************************************)
States == {"GREETED", "HELO_OK", "FROM_OK", "RCPT_OK", "DATA_MODE", "POST_DATA"}

NewClientSession ==
  [state |-> "GREETED", heloSeen |-> FALSE, mailTx |-> FALSE, isTLS |-> FALSE]

Accepts(state) ==
  CASE state = "GREETED" -> {"HELO", "EHLO", "NOOP", "RSET", "QUIT", "STARTTLS"}
    [] state = "HELO_OK" -> {"MAILFROM", "NOOP", "RSET", "QUIT", "STARTTLS",
                             "EHLO", "HELO", "HELP", "VRFY", "EXPN", "AUTH"}
    [] state = "FROM_OK" -> {"RCPTTO", "RSET", "NOOP", "QUIT"}
    [] state = "RCPT_OK" -> {"RCPTTO", "DATA", "RSET", "NOOP", "QUIT"}
    [] state = "DATA_MODE" -> {}
    [] state = "POST_DATA" -> {"RSET", "QUIT"}

\* TRUE when cmd is permitted in the session's state (the code's err == nil)
verifyState(cl, cmd) == cmd \in Accepts(cl.state)

markState(cl, cmd) ==
  CASE cmd \in {"HELO", "EHLO"} -> [cl EXCEPT !.state = "HELO_OK", !.heloSeen = TRUE]
    [] cmd = "MAILFROM" -> [cl EXCEPT !.state = "FROM_OK", !.mailTx = TRUE]
    [] cmd = "RCPTTO" -> [cl EXCEPT !.state = "RCPT_OK"]
    [] cmd = "DATA" -> [cl EXCEPT !.state = "DATA_MODE"]
    [] cmd = "STARTTLS" -> [cl EXCEPT !.state = "GREETED"]
    [] OTHER -> cl

reset(cl) == [cl EXCEPT !.state = IF cl.heloSeen THEN "HELO_OK" ELSE "GREETED"]

isInDataMode(cl) == cl.state = "DATA_MODE"

MarkInPostDataMode(cl) == [cl EXCEPT !.state = "POST_DATA"]

hasInitiatedMailTransaction(cl) == cl.mailTx

(***************************************************************************)
(* State.                                                                  *)
(***************************************************************************)
VARIABLES
  \* tcpServer.withTLS: certificate and key are configured (tlsConfig set)
  withTLS,
  \* each listener's goroutine in tcpServer.Start: "off" (not started),
  \* "accept" (in AcceptTCP), "admit" (at clientMutex.Lock with the accepted
  \* connection lconn) or "log" (admitted, before the log line and the go
  \* statement)
  lpc, lconn,
  \* s.conn of each listener: TRUE until Stop has closed it
  lnOpen,
  \* history: the listener's latest AcceptTCP returned an error
  acceptFailed,
  \* clientMutex: "free", or the listener whose goroutine holds it (a
  \* session's critical section is one step)
  clientMutex,
  \* totalClientConnections, clientConnections (clientId -> session)
  totalClientConnections, clientConnections,
  \* each connection and its session goroutine:
  \*   "idle"      not yet opened by the client
  \*   "accepted"  returned by AcceptTCP, the listener has not yet decided
  \*   "dropped"   refused at the cap: no session, the socket is left open
  \*   "greet"     session started, about to write the greeting
  \*   "register"  greeting written, at incrementConnectionCounter
  \*   "loop"      at the top of command_loop
  \*   "handoff"   blocked in the send on envelopeChannel
  \*   "unreg"     left the loop, at decrementConnectionCounter
  \*   "closed"    handleTCPConnection returned, the connection is closed
  pc,
  \* the session's locals: client, totalCommandErrors, envelopeData
  client, totalCommandErrors, envelopeData,
  \* the id generator's position: the next id it hands out
  nextId,
  \* envelopeChannel: the sends waiting on the unbuffered ingest channel
  envelopeChannel,
  \* the enrichment worker: the envelope it holds between receiving it and
  \* handing it to the storage channel (NoEnvelope: waiting to receive)
  processor,
  \* the storage stage: <<remote address, id>> of each envelope, in the
  \* order the storage consumer received them
  storage,
  \* history: what the session's latest step read and the lines it handed
  \* to writeData
  last,
  \* history: the I/O error the session's latest step met: "none", "read"
  \* (ReadLine or ReadDotBytes failed) or "write" (writeData failed)
  ioError,
  \* history: the length of the current run of parser-rejected commands
  consecutive,
  \* history: the channel ("plain", "tls") on which the MAIL FROM that set
  \* the current envelope's sender was accepted, "none" when it has none
  mailChannel,
  \* history: the mailboxes accepted since the current envelope was created
  sinceNew,
  \* history: the ids of the envelopes each session sealed, in order
  sealed,
  \* history: the ids of the envelopes each session replaced on RSET
  discarded,
  \* the scripted client and observer of SpecScenario: the inputs the
  \* session consumed, the replies it wrote, the envelopes it published
  sent, transcript, published

listenerVars == <<lpc, lconn, lnOpen, acceptFailed>>
tableVars == <<clientMutex, totalClientConnections, clientConnections>>
sessionVars == <<client, totalCommandErrors, envelopeData>>
pipelineVars == <<envelopeChannel, processor, storage>>
historyVars == <<last, ioError, consecutive, mailChannel, sinceNew, sealed,
                 discarded>>
observerVars == <<sent, transcript, published>>
vars == <<withTLS, listenerVars, tableVars, pc, sessionVars, nextId,
          pipelineVars, historyVars>>

Event(kind, cmd, outcome, replies, len) ==
  [kind |-> kind, cmd |-> cmd, outcome |-> outcome, replies |-> replies, len |-> len]

NoEvent == Event("none", "", "", <<>>, 0)

\* the state after construction of a server with (tls) or without a
\* certificate and key
InitServer(tls) ==
  /\ withTLS = tls
  /\ lpc = [l \in Listeners |-> IF l = "plain" \/ tls THEN "accept" ELSE "off"]
  /\ lconn = [l \in Listeners |-> 0]
  /\ lnOpen = [l \in Listeners |-> TRUE]
  /\ acceptFailed = [l \in Listeners |-> FALSE]
  /\ clientMutex = "free"
  /\ totalClientConnections = 0
  /\ clientConnections = {}
  /\ pc = [c \in Sockets |-> "idle"]
  /\ client = [c \in Sockets |-> NewClientSession]
  /\ totalCommandErrors = [c \in Sockets |-> 0]
  /\ envelopeData = [c \in Sockets |-> NoEnvelope]
  /\ nextId = 1
  /\ envelopeChannel = {}
  /\ processor = NoEnvelope
  /\ storage = <<>>
  /\ last = [c \in Sockets |-> NoEvent]
  /\ ioError = [c \in Sockets |-> "none"]
  /\ consecutive = [c \in Sockets |-> 0]
  /\ mailChannel = [c \in Sockets |-> "none"]
  /\ sinceNew = [c \in Sockets |-> {}]
  /\ sealed = [c \in Sockets |-> <<>>]
  /\ discarded = [c \in Sockets |-> {}]
  /\ sent = <<>>
  /\ transcript = <<>>
  /\ published = <<>>

Init == \E tls \in BOOLEAN : InitServer(tls)
\* smtp.tls.public_key and smtp.tls.private_key left at their default ""
InitPlain == InitServer(FALSE)

(***************************************************************************)
(* The live-connection table: a map from clientId to the session, as the   *)
(* set of its <<key, value>> pairs.                                        *)
(***************************************************************************)
MapPut(m, k, v) == {p \in m : p[1] # k} \cup {<<k, v>>}
MapDelete(m, k) == {p \in m : p[1] # k}
MapKeys(m) == {p[1] : p \in m}

(***************************************************************************)
(* The listener: tcpServer.Start's accept loop.                            *)
(***************************************************************************)
\* ln.AcceptTCP() of listener l returns connection c (the clients of one
\* port open theirs in order)
AcceptTCP(l, c) ==
  /\ lpc[l] = "accept"
  /\ lnOpen[l]
  /\ ListenerOf(c) = l
  /\ pc[c] = "idle"
  /\ \A d \in Sockets : (ListenerOf(d) = l /\ d < c) => pc[d] # "idle"
  /\ pc' = [pc EXCEPT ![c] = "accepted"]
  /\ lpc' = [lpc EXCEPT ![l] = "admit"]
  /\ lconn' = [lconn EXCEPT ![l] = c]
  /\ acceptFailed' = [acceptFailed EXCEPT ![l] = FALSE]
  /\ UNCHANGED <<withTLS, lnOpen, tableVars, sessionVars, nextId, pipelineVars,
                 historyVars>>

\* ln.AcceptTCP() on the closed socket returns an error: the body of the
\* if is skipped and the for statement calls AcceptTCP again
AcceptFails(l) ==
  /\ lpc[l] = "accept"
  /\ ~lnOpen[l]
  /\ acceptFailed' = [acceptFailed EXCEPT ![l] = TRUE]
  /\ UNCHANGED <<withTLS, lpc, lconn, lnOpen, tableVars, pc, sessionVars,
                 nextId, pipelineVars, historyVars>>

\* tcpServer.Stop: s.conn.Close()
Stop(l) ==
  /\ lpc[l] # "off"
  /\ lnOpen[l]
  /\ lnOpen' = [lnOpen EXCEPT ![l] = FALSE]
  /\ UNCHANGED <<withTLS, lpc, lconn, acceptFailed, tableVars, pc, sessionVars,
                 nextId, pipelineVars, historyVars>>

\* clientMutex.Lock(); at the cap: log and continue, the mutex still locked
\* and the accepted socket neither closed nor handled; below the cap:
\* Unlock
Admit(l) ==
  /\ lpc[l] = "admit"
  /\ clientMutex = "free"
  /\ IF totalClientConnections >= maxClientConnections
       THEN /\ clientMutex' = l
            /\ pc' = [pc EXCEPT ![lconn[l]] = "dropped"]
            /\ lpc' = [lpc EXCEPT ![l] = "accept"]
       ELSE /\ clientMutex' = "free"
            /\ lpc' = [lpc EXCEPT ![l] = "log"]
            /\ UNCHANGED pc
  /\ UNCHANGED <<withTLS, lconn, lnOpen, acceptFailed, totalClientConnections,
                 clientConnections, sessionVars, nextId, pipelineVars,
                 historyVars>>

\* log.Infoln(..., totalClientConnections), read after the Unlock;
\* SetReadDeadline; go s.handleTCPConnection
Spawn(l) ==
  /\ lpc[l] = "log"
  /\ pc' = [pc EXCEPT ![lconn[l]] = "greet"]
  /\ lpc' = [lpc EXCEPT ![l] = "accept"]
  /\ UNCHANGED <<withTLS, lconn, lnOpen, acceptFailed, tableVars, sessionVars,
                 nextId, pipelineVars, historyVars>>

(***************************************************************************)
(* The session: handleTCPConnection.                                       *)
(***************************************************************************)
\* client.writeData(kGreeting); a failed write returns (the deferred Close
\* runs) before the session is registered
Greet(c, ok) ==
  /\ pc[c] = "greet"
  /\ pc' = [pc EXCEPT ![c] = IF ok THEN "register" ELSE "closed"]
  /\ last' = [last EXCEPT ![c] =
                Event("greeting", "", IF ok THEN "ok" ELSE "write_error",
                      <<kGreeting>>, 0)]
  /\ ioError' = [ioError EXCEPT ![c] = IF ok THEN "none" ELSE "write"]
  /\ UNCHANGED <<withTLS, listenerVars, tableVars, sessionVars, nextId,
                 pipelineVars, consecutive, mailChannel, sinceNew, sealed,
                 discarded>>

\* incrementConnectionCounter: Lock, count, insert, Unlock
incrementConnectionCounter(clientId, c) ==
  /\ clientMutex = "free"
  /\ totalClientConnections' = totalClientConnections + 1
  /\ clientConnections' = MapPut(clientConnections, clientId, c)
  /\ clientMutex' = "free"

\* decrementConnectionCounter: Lock, count, delete, Unlock
decrementConnectionCounter(clientId) ==
  /\ clientMutex = "free"
  /\ totalClientConnections' = totalClientConnections - 1
  /\ clientConnections' = MapDelete(clientConnections, clientId)
  /\ clientMutex' = "free"

\* s.incrementConnectionCounter(clientId, client); envelope.NewEnvelope
Register(c) ==
  /\ pc[c] = "register"
  /\ nextId <= MaxIds
  /\ incrementConnectionCounter(RemoteAddr(c), c)
  /\ envelopeData' = [envelopeData EXCEPT ![c] =
                       NewEnvelope(RemoteAddr(c), idGenerator(nextId))]
  /\ nextId' = nextId + 1
  /\ pc' = [pc EXCEPT ![c] = "loop"]
  /\ UNCHANGED <<withTLS, listenerVars, client, totalCommandErrors,
                 pipelineVars, historyVars>>

\* what one pass of command_loop leaves: the session object, the envelope,
\* the error count, the reply lines written, whether the loop was left
Result(cl, env, errors, replies, exit, outcome) ==
  [client |-> cl, env |-> env, errors |-> errors, replies |-> replies,
   exit |-> exit, outcome |-> outcome]

\* onParseError with the limit compared before the count is raised
onParseError_LateLimit(cl, env, errors, response) ==
  Result(cl, env, errors + 1, <<response>>, errors = kMaxCommandErrors, "syntax")

\* command.Response != "": reply, count, leave the loop at the fifth error
onParseError(cl, env, errors, response) ==
  Result(cl, env, errors + 1, <<response>>, errors + 1 = kMaxCommandErrors, "syntax")

\* onBadSequence with the state marked before the sequence is verified
onBadSequence_Marked(cl, env, errors, cmd) ==
  Result(markState(cl, cmd), env, errors, <<kBadCommandSequence>>, FALSE, "sequence")

\* verifyState failed: reply and continue
onBadSequence(cl, env, errors, cmd) ==
  Result(cl, env, errors, <<kBadCommandSequence>>, FALSE, "sequence")

\* onRSET that resets the sequence-state and keeps the envelope
onRSET_KeepsEnvelope(cl, env, errors, clientId, id) ==
  Result(reset(cl), env, errors, <<Reply(250, " ", "OK")>>, FALSE, "ok")

\* envelopeData = envelope.NewEnvelope(clientId); client.reset()
onRSET(cl, env, errors, clientId, id) ==
  Result(reset(cl), NewEnvelope(clientId, id), errors, <<Reply(250, " ", "OK")>>,
         FALSE, "ok")

\* tls.Server, Handshake; hs: the handshake succeeded
onSTARTTLS(cl, env, errors, hs) ==
  IF ~hs
    THEN Result(cl, env, errors, <<kClosingConnection>>, TRUE, "handshake_failed")
    ELSE Result([cl EXCEPT !.isTLS = TRUE],
                IF ~hasInitiatedMailTransaction(cl)
                  THEN [env EXCEPT !.SecurelyDelivered = TRUE] ELSE env,
                errors, <<>>, FALSE, "ok")

onHELO(cl, env, errors) ==
  Result(cl, env, errors, <<Reply(250, " ", "Hello")>>, FALSE, "ok")

onEHLO(cl, env, errors, tlsPort) ==
  Result(cl, env, errors,
         <<Reply(250, "-", "Hello"), Reply(250, "-", "SIZE"),
           Reply(250, "-", "PIPELINING"), Reply(250, " ", "8BITMIME"),
           Reply(250, "-", "VRFY"), Reply(250, "-", "HELP")>>
         \o (IF ~tlsPort /\ ~cl.isTLS THEN <<Reply(250, "-", "STARTTLS")>> ELSE <<>>),
         FALSE, "ok")

\* onMAILFROM that records the address as the recipient
onMAILFROM_IntoTo(cl, env, errors, argument) ==
  LET fromAddress == verifyEmailAddress(argument) IN
  IF ~fromAddress.ok
    THEN Result(cl, env, errors, <<kRequestAborted>>, FALSE, "aborted")
    ELSE Result(cl, [env EXCEPT !.To = fromAddress.addr], errors,
                <<kRecipientAccepted>>, FALSE, "ok")

onMAILFROM(cl, env, errors, argument) ==
  LET fromAddress == verifyEmailAddress(argument) IN
  IF ~fromAddress.ok
    THEN Result(cl, env, errors, <<kRequestAborted>>, FALSE, "aborted")
    ELSE Result(cl, [env EXCEPT !.From = fromAddress.addr], errors,
                <<kRecipientAccepted>>, FALSE, "ok")

onRCPTTO(cl, env, errors, argument) ==
  LET toAddress == verifyEmailAddress(argument) IN
  IF ~toAddress.ok
    THEN Result(cl, env, errors, <<kRequestAborted>>, FALSE, "aborted")
    ELSE Result(cl,
                IF env.To = NoAddress
                  THEN [env EXCEPT !.To = toAddress.addr]
                  ELSE [env EXCEPT !.Forwards = Append(@, toAddress.addr)],
                errors, <<kRecipientAccepted>>, FALSE, "ok")

\* the verbs whose case only writes a canned reply
onCanned(cl, env, errors, cmd) ==
  Result(cl, env, errors,
         CASE cmd = "EXPN" -> <<kCommandNotImplemented>>
           [] cmd = "HELP" -> <<Reply(214, " ", "SMTP servers help those who help themselves."),
                                Reply(214, " ", "Go read http://cr.yp.to/smtp.html.")>>
           [] cmd = "NOOP" -> <<kNoopCommand>>
           [] cmd = "VRFY" -> <<kVerifyAddress>>
           [] cmd = "AUTH" -> <<kCommandNotImplemented>>
           [] cmd = "DATA" -> <<kSendData>>
           [] cmd = "QUIT" -> <<kClosingConnection>>,
         cmd = "QUIT", IF cmd = "QUIT" THEN "quit" ELSE "ok")

\* the switch on command.Cmd, after markState
dispatch(cl, env, errors, command, hs, clientId, id, tlsPort) ==
  CASE command.Cmd = "RSET" -> onRSET(cl, env, errors, clientId, id)
    [] command.Cmd = "STARTTLS" -> onSTARTTLS(cl, env, errors, hs)
    [] command.Cmd = "HELO" -> onHELO(cl, env, errors)
    [] command.Cmd = "EHLO" -> onEHLO(cl, env, errors, tlsPort)
    [] command.Cmd = "MAILFROM" -> onMAILFROM(cl, env, errors, command.Argument)
    [] command.Cmd = "RCPTTO" -> onRCPTTO(cl, env, errors, command.Argument)
    [] OTHER -> onCanned(cl, env, errors, command.Cmd)

\* one pass of command_loop outside DATA mode: ReadLine, ParseCmd,
\* verifyState, markState, the switch
handleCommand(cl, env, errors, line, hs, clientId, id, tlsPort) ==
  LET command == ParseCmd(line) IN
  IF command.Response # NoResponse
    THEN onParseError(cl, env, errors, command.Response)
    ELSE IF ~verifyState(cl, command.Cmd)
      THEN onBadSequence(cl, env, errors, command.Cmd)
      ELSE dispatch(markState(cl, command.Cmd), env, errors, command, hs,
                    clientId, id, tlsPort)

\* the command allocates an envelope (an accepted RSET)
Allocates(cl, line) ==
  ParseCmd(line).Cmd = "RSET" /\ verifyState(cl, "RSET")

\* the command appends a forward (an accepted RCPT TO after the first)
AddsForward(cl, env, line) ==
  /\ ParseCmd(line).Cmd = "RCPTTO"
  /\ verifyState(cl, "RCPTTO")
  /\ verifyEmailAddress(ParseCmd(line).Argument).ok
  /\ env.To # NoAddress

\* one pass of command_loop outside DATA mode.  io: "read" when ReadLine
\* returned an error (the line it returns is then empty and err is only
\* logged), "write" when a writeData of the pass returned an error (which
\* the loop does not look at), "none" otherwise
CommandPass(c, line, hs, io) ==
  /\ pc[c] = "loop"
  /\ ~isInDataMode(client[c])
  /\ io = "read" => line = EmptyLine
  \* the handshake is an input of STARTTLS alone, and succeeds only with a
  \* certificate configured
  /\ hs => (withTLS /\ ParseCmd(line).Cmd = "STARTTLS")
  /\ Allocates(client[c], line) => nextId <= MaxIds
  /\ AddsForward(client[c], envelopeData[c], line)
       => Len(envelopeData[c].Forwards) < MaxForwards
  /\ LET command == ParseCmd(line)
         r == handleCommand(client[c], envelopeData[c], totalCommandErrors[c],
                            line, hs, RemoteAddr(c), idGenerator(nextId),
                            withTLS)
         accepted == r.outcome = "ok"
     IN
     /\ client' = [client EXCEPT ![c] = r.client]
     /\ envelopeData' = [envelopeData EXCEPT ![c] = r.env]
     /\ totalCommandErrors' = [totalCommandErrors EXCEPT ![c] = r.errors]
     /\ nextId' = IF Allocates(client[c], line) THEN nextId + 1 ELSE nextId
     /\ pc' = [pc EXCEPT ![c] = IF r.exit THEN "unreg" ELSE "loop"]
     /\ io = "write" => r.replies # <<>>
     /\ last' = [last EXCEPT ![c] =
                   Event("command", command.Cmd, r.outcome, r.replies, 0)]
     /\ ioError' = [ioError EXCEPT ![c] = io]
     /\ consecutive' = [consecutive EXCEPT ![c] =
                          IF r.outcome = "syntax" THEN @ + 1 ELSE 0]
     /\ mailChannel' = [mailChannel EXCEPT ![c] =
                          IF accepted /\ command.Cmd = "MAILFROM"
                            THEN (IF client[c].isTLS THEN "tls" ELSE "plain")
                            ELSE IF accepted /\ command.Cmd = "RSET"
                              THEN "none" ELSE @]
     /\ sinceNew' = [sinceNew EXCEPT ![c] =
                       IF accepted /\ command.Cmd \in {"MAILFROM", "RCPTTO"}
                         THEN @ \cup {command.Argument}
                         ELSE IF accepted /\ command.Cmd = "RSET" THEN {} ELSE @]
     /\ discarded' = [discarded EXCEPT ![c] =
                        IF accepted /\ command.Cmd = "RSET"
                          THEN @ \cup {envelopeData[c].Id} ELSE @]
  /\ UNCHANGED <<withTLS, listenerVars, tableVars, pipelineVars, sealed>>

\* a pass of command_loop whose read and writes succeed
Command(c, line, hs) == CommandPass(c, line, hs, "none")

\* queueForDelivery that sends from a goroutine of its own and returns
queueForDelivery_Detached(c, e) ==
  /\ envelopeChannel' = envelopeChannel \cup {[from |-> c, env |-> e]}
  /\ pc' = [pc EXCEPT ![c] = "loop"]

\* s.envelopeChannel <- e: the send waits on the unbuffered channel until a
\* receiver takes it
queueForDelivery(c, e) ==
  /\ envelopeChannel' = envelopeChannel \cup {[from |-> c, env |-> e]}
  /\ pc' = [pc EXCEPT ![c] = "handoff"]

\* a DATA body is a message to store when the read succeeded and ...
messageEnds(ok, dotBytes) == ok /\ Len(dotBytes) > 0

\* one pass of command_loop in DATA mode: ReadDotBytes; body.ok: the read
\* succeeded, body.wire: the lines read
ReadData(c, body) ==
  /\ pc[c] = "loop"
  /\ isInDataMode(client[c])
  /\ LET dotBytes == ReadDotBytes(body.wire) IN
     IF ~body.ok
       THEN /\ pc' = [pc EXCEPT ![c] = "unreg"]
            /\ last' = [last EXCEPT ![c] = Event("data", "", "read_error", <<>>, 0)]
            /\ ioError' = [ioError EXCEPT ![c] = "read"]
            /\ UNCHANGED <<client, envelopeData, envelopeChannel, sealed>>
       ELSE IF messageEnds(body.ok, dotBytes)
         THEN /\ envelopeData' = [envelopeData EXCEPT ![c].Message = dotBytes]
              /\ client' = [client EXCEPT ![c] = MarkInPostDataMode(@)]
              /\ last' = [last EXCEPT ![c] =
                            Event("data", "", "read_ok",
                                  <<kMessageAccepted(envelopeData[c].Id)>>,
                                  Len(dotBytes))]
              /\ ioError' = [ioError EXCEPT ![c] = "none"]
              /\ sealed' = [sealed EXCEPT ![c] = Append(@, envelopeData[c].Id)]
              /\ queueForDelivery(c, envelopeData'[c])
         ELSE /\ last' = [last EXCEPT ![c] =
                            Event("data", "", "read_ok", <<>>, Len(dotBytes))]
              /\ ioError' = [ioError EXCEPT ![c] = "none"]
              /\ UNCHANGED <<pc, client, envelopeData, envelopeChannel, sealed>>
  /\ UNCHANGED <<withTLS, listenerVars, tableVars, totalCommandErrors, nextId,
                 processor, storage, consecutive, mailChannel, sinceNew,
                 discarded>>

\* after the loop: s.decrementConnectionCounter(clientId), then the
\* deferred Close
Unregister(c) ==
  /\ pc[c] = "unreg"
  /\ decrementConnectionCounter(RemoteAddr(c))
  /\ pc' = [pc EXCEPT ![c] = "closed"]
  /\ UNCHANGED <<withTLS, listenerVars, sessionVars, nextId, pipelineVars,
                 historyVars>>

(***************************************************************************)
(* The pipeline (specification 4.4 to 4.6).                                *)
(***************************************************************************)
\* the enrichment worker receives from the ingest channel: one waiting send
\* completes and its session goes on
ProcessorReceive ==
  /\ processor = NoEnvelope
  /\ \E m \in envelopeChannel :
       /\ envelopeChannel' = envelopeChannel \ {m}
       /\ processor' = m.env
       /\ pc' = [pc EXCEPT ![m.from] = IF @ = "handoff" THEN "loop" ELSE @]
  /\ UNCHANGED <<withTLS, listenerVars, tableVars, sessionVars, nextId,
                 storage, historyVars>>

\* the worker forwards the envelope on the storage channel and the storage
\* consumer receives it
StorageReceive ==
  /\ processor # NoEnvelope
  /\ storage' = Append(storage, <<processor.RemoteAddress, processor.Id>>)
  /\ processor' = NoEnvelope
  /\ UNCHANGED <<withTLS, listenerVars, tableVars, pc, sessionVars, nextId,
                 envelopeChannel, historyVars>>

(***************************************************************************)
(* What the clients send.                                                  *)
(***************************************************************************)
Hello == Line("HELO", "x")
MailFrom == Line("MAIL FROM:", "<a@b>")
RcptTo == Line("RCPT TO:", "<c@d>")
RcptTo2 == Line("RCPT TO:", "<e@f>")
Data == Line("DATA", "")
Rset == Line("RSET", "")
Quit == Line("QUIT", "")
StartTLS == Line("STARTTLS", "")
Foo == Line("FOO", "")

\* every verb, the verb matching and the argument checks
Noop == Line("NOOP", "")
MailBogus == Line("MAIL FROM:", "<bogus>")
RcptBogus == Line("RCPT TO:", "<bogus>")

\* every verb, the verb matching and the argument checks
SessionLines ==
  {Hello, Line("EHLO", "x"), MailFrom, Line("mail from:", "a@b"), MailBogus,
   RcptTo, RcptBogus, Data, Rset, Noop, Line("VRFY", "x"), Line("EXPN", "x"),
   Line("HELP", ""), Quit, Line("quit", ""), StartTLS, Line("AUTH", "x")}

\* the dialogue of several concurrent clients
ServerLines == {Hello, MailFrom, RcptTo, Data, Rset, Quit}

\* lines the parser rejects, among lines it accepts
ErrorLines == {Hello, Noop, Data, MailBogus, Quit, Foo, Line("helo", "x"), EmptyLine}

\* the scripted client
ScenarioLines == {Hello, MailFrom, RcptTo, RcptTo2, Data, Quit}

\* what the socket does to a pass of the loop
IOOutcomes == {"none", "read", "write"}

Body(wire) == [ok |-> TRUE, wire |-> wire]
\* ReadDotBytes returned an error
BodyError == [ok |-> FALSE, wire |-> <<>>]
\* "hi" CRLF "." CRLF
BodyHi == Body(<< <<"h", "i">> >>)
\* "." CRLF: no line before the terminating dot
BodyEmpty == Body(<<>>)
\* "..x" CRLF "." CRLF: a dot-stuffed line
BodyDot == Body(<< <<".", ".", "x">> >>)

SessionBodies == {BodyHi, BodyEmpty, BodyError}
ServerBodies == {BodyHi, BodyError}
ScenarioBodies == {BodyHi, BodyEmpty, BodyDot}

(***************************************************************************)
(* Spec: the server with MaxConns clients.                                 *)
(***************************************************************************)
Next ==
  \/ \E c \in Conns : AcceptTCP("plain", c) /\ UNCHANGED observerVars
  \/ Admit("plain") /\ UNCHANGED observerVars
  \/ Spawn("plain") /\ UNCHANGED observerVars
  \/ \E c \in Conns, ok \in BOOLEAN : Greet(c, ok) /\ UNCHANGED observerVars
  \/ \E c \in Conns : Register(c) /\ UNCHANGED observerVars
  \/ \E c \in Conns, line \in ServerLines :
       Command(c, line, FALSE) /\ UNCHANGED observerVars
  \/ \E c \in Conns, body \in ServerBodies :
       ReadData(c, body) /\ UNCHANGED observerVars
  \/ \E c \in Conns : Unregister(c) /\ UNCHANGED observerVars
  \/ ProcessorReceive /\ UNCHANGED observerVars
  \/ StorageReceive /\ UNCHANGED observerVars

Spec == InitPlain /\ [][Next]_vars

(***************************************************************************)
(* SpecSession: one client, every verb.                                    *)
(***************************************************************************)
NextSession ==
  \/ AcceptTCP("plain", 1) /\ UNCHANGED observerVars
  \/ Admit("plain") /\ UNCHANGED observerVars
  \/ Spawn("plain") /\ UNCHANGED observerVars
  \/ \E ok \in BOOLEAN : Greet(1, ok) /\ UNCHANGED observerVars
  \/ Register(1) /\ UNCHANGED observerVars
  \/ \E line \in SessionLines, hs \in BOOLEAN :
       Command(1, line, hs) /\ UNCHANGED observerVars
  \/ \E body \in SessionBodies : ReadData(1, body) /\ UNCHANGED observerVars
  \/ Unregister(1) /\ UNCHANGED observerVars
  \/ ProcessorReceive /\ UNCHANGED observerVars
  \/ StorageReceive /\ UNCHANGED observerVars

SpecSession == Init /\ [][NextSession]_vars

(***************************************************************************)
(* SpecScenario: one client that sends at most MaxScript inputs, and an    *)
(* observer that records the inputs consumed, the replies written and the  *)
(* envelopes published.                                                    *)
(***************************************************************************)
Observe(input) ==
  /\ Len(sent) < MaxScript
  /\ sent' = Append(sent, input)
  /\ transcript' = transcript \o last'[1].replies
  /\ published' = IF pc'[1] = "handoff"
                    THEN Append(published, envelopeData'[1]) ELSE published

NextScenario ==
  \/ AcceptTCP("plain", 1) /\ UNCHANGED observerVars
  \/ Admit("plain") /\ UNCHANGED observerVars
  \/ Spawn("plain") /\ UNCHANGED observerVars
  \/ /\ Greet(1, TRUE)
     /\ transcript' = transcript \o last'[1].replies
     /\ UNCHANGED <<sent, published>>
  \/ Register(1) /\ UNCHANGED observerVars
  \/ \E line \in ScenarioLines : Command(1, line, FALSE) /\ Observe(line)
  \/ \E body \in ScenarioBodies : ReadData(1, body) /\ Observe(body)
  \/ Unregister(1) /\ UNCHANGED observerVars
  \/ ProcessorReceive /\ UNCHANGED observerVars
  \/ StorageReceive /\ UNCHANGED observerVars

SpecScenario == InitPlain /\ [][NextScenario]_vars

(***************************************************************************)
(* SpecErrors: one client whose lines the parser may reject.               *)
(***************************************************************************)
NextErrors ==
  \/ AcceptTCP("plain", 1) /\ UNCHANGED observerVars
  \/ Admit("plain") /\ UNCHANGED observerVars
  \/ Spawn("plain") /\ UNCHANGED observerVars
  \/ \E ok \in BOOLEAN : Greet(1, ok) /\ UNCHANGED observerVars
  \/ Register(1) /\ UNCHANGED observerVars
  \/ \E line \in ErrorLines, io \in IOOutcomes :
       CommandPass(1, line, FALSE, io) /\ UNCHANGED observerVars
  \/ Unregister(1) /\ UNCHANGED observerVars

SpecErrors == InitPlain /\ [][NextErrors]_vars

(***************************************************************************)
(* SpecListeners: both listeners, a client on each port, and Stop.         *)
(***************************************************************************)
ListenerLines == {Hello, Quit}

NextListeners ==
  \/ \E l \in Listeners, c \in Sockets : AcceptTCP(l, c) /\ UNCHANGED observerVars
  \/ \E l \in Listeners : AcceptFails(l) /\ UNCHANGED observerVars
  \/ \E l \in Listeners : Stop(l) /\ UNCHANGED observerVars
  \/ \E l \in Listeners : Admit(l) /\ UNCHANGED observerVars
  \/ \E l \in Listeners : Spawn(l) /\ UNCHANGED observerVars
  \/ \E c \in Sockets, ok \in BOOLEAN : Greet(c, ok) /\ UNCHANGED observerVars
  \/ \E c \in Sockets : Register(c) /\ UNCHANGED observerVars
  \/ \E c \in Sockets, line \in ListenerLines :
       Command(c, line, FALSE) /\ UNCHANGED observerVars
  \/ \E c \in Sockets : Unregister(c) /\ UNCHANGED observerVars

\* smtp.tls.public_key and smtp.tls.private_key both set
InitTLS == InitServer(TRUE)

SpecListeners == InitTLS /\ [][NextListeners]_vars

(***************************************************************************)
(* The claims.                                                             *)
(***************************************************************************)
Range(seq) == {seq[i] : i \in 1..Len(seq)}

Occurrences(seq, x) == Cardinality({i \in 1..Len(seq) : seq[i] = x})

\* the session goroutine of c is running
Running(c) == pc[c] \in {"greet", "register", "loop", "handoff", "unreg"}

\* the session of c is in its command loop or leaving it: greeted and
\* registered, not yet closed
Live(c) == pc[c] \in {"loop", "handoff", "unreg"}

\* the envelope has left the session: it waits on the ingest channel, is
\* held by the enrichment worker or has reached the storage stage
Handed(e) ==
  \/ \E m \in envelopeChannel : m.env = e
  \/ processor = e
  \/ <<e.RemoteAddress, e.Id>> \in Range(storage)

C1Dialogue == <<Hello, MailFrom, RcptTo, Data, BodyHi, Quit>>

\* C1: after the dialogue HELO, MAIL FROM:<a@b>, RCPT TO:<c@d>, DATA, "hi",
\* lone dot, QUIT on a plain connection the replies written are 220, 250,
\* 250, 250, 354, "250 OK: queued as <id>", 221 in that order, each a final
\* line, and exactly one envelope was published to the ingest stage, with
\* from a@b, to c@d, no forwards, the body as message and
\* securely_delivered false; <id> is that envelope's id.
C1_HappyDialogue ==
  sent = C1Dialogue =>
    /\ [i \in 1..Len(transcript) |-> transcript[i].code]
         = <<220, 250, 250, 250, 354, 250, 221>>
    /\ \A i \in 1..Len(transcript) : transcript[i].sep = " "
    /\ Len(published) = 1
    /\ transcript[6] = kMessageAccepted(published[1].Id)
    /\ transcript[7] = kClosingConnection
    /\ published[1].From = "a@b"
    /\ published[1].To = "c@d"
    /\ published[1].Forwards = <<>>
    /\ published[1].Message = << <<"h", "i">> >>
    /\ published[1].SecurelyDelivered = FALSE
    /\ published[1].Id # 0
    /\ Handed(published[1])
    /\ envelopeChannel = {}
    /\ ~client[1].isTLS

\* the dialogue was consumed and the session has returned
C1_Witness == sent = C1Dialogue /\ pc[1] = "closed"

\* C2: a command whose verb the sequence table does not permit in the
\* session's state is answered with "503 Bad command sequence" alone and
\* leaves the sequence-state, the flags, the envelope under construction and
\* the error count as they were.
C2_RejectionFrame ==
  [][\A c \in Conns, line \in SessionLines, hs \in BOOLEAN :
       (/\ Command(c, line, hs)
        /\ ParseCmd(line).Cmd \in Verbs
        /\ ParseCmd(line).Cmd \notin Accepts(client[c].state))
       => /\ last'[c].replies = <<kBadCommandSequence>>
          /\ client'[c] = client[c]
          /\ envelopeData'[c] = envelopeData[c]
          /\ totalCommandErrors'[c] = totalCommandErrors[c]
          /\ pc'[c] = "loop"]_vars

\* a verb was rejected for its place in the sequence while the envelope
\* under construction had a sender and a recipient
C2_Witness ==
  \E c \in Conns :
    /\ last[c].outcome = "sequence"
    /\ client[c].state = "RCPT_OK"
    /\ envelopeData[c].To # NoAddress

\* C3 (as claimed): when the session in DATA_MODE has read an empty body,
\* it has replied "250 OK: queued as <id>", is in POST_DATA and has
\* published the envelope, whose message has length zero.
C3_EmptyBodyStored ==
  \A c \in Conns :
    (last[c].kind = "data" /\ last[c].outcome = "read_ok" /\ last[c].len = 0)
    => /\ last[c].replies = <<kMessageAccepted(envelopeData[c].Id)>>
       /\ client[c].state = "POST_DATA"
       /\ Occurrences(sealed[c], envelopeData[c].Id) = 1
       /\ Len(envelopeData[c].Message) = 0

C5_LiveWithinCap ==
  /\ Cardinality({c \in Conns : Live(c)}) <= maxClientConnections
  /\ \A c \in Conns : pc[c] = "dropped" => last[c] = NoEvent

\* C6 (as claimed): the table holds the connection's entry whenever its
\* session is running and holds none once the session has exited.
C6_TableTracksSession ==
  \A c \in Conns :
    /\ Running(c) => <<RemoteAddr(c), c>> \in clientConnections
    /\ pc[c] = "closed" => RemoteAddr(c) \notin MapKeys(clientConnections)

\* C7 (as claimed): an envelope handed to the ingest stage is marked
\* securely delivered exactly when the MAIL FROM that set its sender was
\* accepted on a TLS channel.
C7_SecureIffMailOnTLS ==
  \A m \in envelopeChannel :
    mailChannel[m.from] # "none"
    => (m.env.SecurelyDelivered <=> mailChannel[m.from] = "tls")

\* C8: the envelope under construction never has the id of an envelope that
\* an RSET replaced, and every mailbox on it, and on an envelope waiting on
\* the ingest channel, was accepted after the envelope was created; right
\* after an accepted RSET its from, to, forwards and message are unset.
C8_FreshAfterRset ==
  /\ \A c \in Conns :
       /\ envelopeData[c].Id \notin discarded[c]
       /\ ({envelopeData[c].From, envelopeData[c].To}
             \cup Range(envelopeData[c].Forwards)) \subseteq (sinceNew[c] \cup {NoAddress})
       /\ (last[c].kind = "command" /\ last[c].cmd = "RSET" /\ last[c].outcome = "ok")
          => /\ envelopeData[c].From = NoAddress
             /\ envelopeData[c].To = NoAddress
             /\ envelopeData[c].Forwards = <<>>
             /\ envelopeData[c].Message = <<>>
  /\ \A m \in envelopeChannel :
       /\ m.env.Id \notin discarded[m.from]
       /\ ({m.env.From, m.env.To} \cup Range(m.env.Forwards))
            \subseteq (sinceNew[m.from] \cup {NoAddress})

\* an envelope with sender and recipient was replaced by RSET, and a later
\* envelope of the session is on its way to the ingest stage
C8_Witness ==
  \E m \in envelopeChannel :
    /\ discarded[m.from] # {}
    /\ m.env.From # NoAddress
    /\ m.env.To # NoAddress

\* C9 (as claimed): a DATA body read without error has its envelope
\* published exactly once, and a session blocked in the handoff has read
\* nothing since that body.
C9_ReadBodyPublishedOnce ==
  \A c \in Conns :
    /\ (last[c].kind = "data" /\ last[c].outcome = "read_ok")
       => Occurrences(sealed[c], envelopeData[c].Id) = 1
    /\ pc[c] = "handoff"
       => /\ last[c].kind = "data"
          /\ \E m \in envelopeChannel : m.from = c /\ m.env = envelopeData[c]

\* the position of id in a session's sealing order
SealedAt(c, id) == CHOOSE i \in 1..Len(sealed[c]) : sealed[c][i] = id

\* C10: two envelopes of one session are received by the storage stage in
\* the order in which the session sealed them.
C10_SessionOrder ==
  \A i, j \in 1..Len(storage) :
    (i < j /\ storage[i][1] = storage[j][1])
    => \E c \in Conns :
         /\ RemoteAddr(c) = storage[i][1]
         /\ storage[i][2] \in Range(sealed[c])
         /\ storage[j][2] \in Range(sealed[c])
         /\ SealedAt(c, storage[i][2]) < SealedAt(c, storage[j][2])

\* the storage stage has received two envelopes of one session and, between
\* them, one of another session
C10_Witness ==
  /\ Len(storage) = 3
  /\ storage[1][1] = storage[3][1]
  /\ storage[2][1] # storage[1][1]

\* the session's latest step was a pass of the loop that accepted verb cmd
Accepted(c, cmd) ==
  last[c].kind = "command" /\ last[c].cmd = cmd /\ last[c].outcome = "ok"

\* C11 (as claimed): the lines written in reply to an accepted EHLO all
\* carry code 250; the last one is "250 <text>" and every earlier one is
\* "250-<text>", whether or not STARTTLS is advertised.
C11_EhloFraming ==
  \A c \in Conns :
    Accepted(c, "EHLO")
    => LET r == last[c].replies IN
       /\ Len(r) >= 1
       /\ \A i \in 1..Len(r) : r[i].code = 250
       /\ r[Len(r)].sep = " "
       /\ \A i \in 1..(Len(r) - 1) : r[i].sep = "-"

\* C13 (as claimed): an accepted STARTTLS first writes "220 Ready to start
\* TLS"; when the handshake fails it then writes "221 Bye" and leaves the
\* loop, and when the handshake succeeds the session is on TLS in state
\* GREETED.
C13_StartTLSReply ==
  \A c \in Conns :
    (last[c].kind = "command" /\ last[c].cmd = "STARTTLS"
       /\ last[c].outcome \in {"ok", "handshake_failed"})
    => /\ Len(last[c].replies) >= 1
       /\ last[c].replies[1] = Reply(220, " ", "Ready to start TLS")
       /\ last[c].outcome = "handshake_failed"
          => /\ last[c].replies[Len(last[c].replies)] = kClosingConnection
             /\ pc[c] \in {"unreg", "closed"}
       /\ last[c].outcome = "ok"
          => client[c].state = "GREETED" /\ client[c].isTLS

\* C16 (as claimed): RCPT TO is accepted only on an envelope whose from is
\* set, DATA only on one whose to is set, and every envelope waiting on the
\* ingest channel has from and to set.
C16_FromBeforeToBeforeData ==
  /\ \A c \in Conns :
       /\ Accepted(c, "RCPTTO") => envelopeData[c].From # NoAddress
       /\ Accepted(c, "DATA") => envelopeData[c].To # NoAddress
  /\ \A m \in envelopeChannel :
       m.env.From # NoAddress /\ m.env.To # NoAddress

\* C12 (as claimed): a session whose latest step met an I/O error has left
\* the loop, and after a failed read of a command line it has written no
\* reply.
C12_IOErrorTerminates ==
  \A c \in Conns :
    ioError[c] # "none"
    => /\ pc[c] \in {"unreg", "closed"}
       /\ ioError[c] = "read" => last[c].replies = <<>>

\* C14 (as claimed): the error count is the length of the current run of
\* parser-rejected commands, and a session that left the loop on a parser
\* rejection had a run of five.
C14_ConsecutiveErrorsOnly ==
  \A c \in Conns :
    /\ totalCommandErrors[c] = consecutive[c]
    /\ (last[c].outcome = "syntax" /\ pc[c] \in {"unreg", "closed"})
       => consecutive[c] = kMaxCommandErrors

\* C17 (as claimed): a pass of the loop that ends in a protocol error, be it
\* a syntax error, a bad command sequence or an unparseable address, raises
\* the session's error count by one.
C17_ProtocolErrorsCounted ==
  [][\A c \in Conns, line \in ErrorLines, io \in IOOutcomes :
       (/\ CommandPass(c, line, FALSE, io)
        /\ last'[c].outcome \in {"syntax", "sequence", "aborted"})
       => totalCommandErrors'[c] = totalCommandErrors[c] + 1]_vars

\* C15 (as claimed): the admission check never leaves clientMutex held: a
\* listener back at AcceptTCP, or past the check, does not hold it, and a
\* session that is about to unregister finds it free.
C15_AdmissionReleasesMutex ==
  /\ \A l \in Listeners : lpc[l] \in {"accept", "log"} => clientMutex # l
  /\ \A c \in Conns : pc[c] = "unreg" => clientMutex = "free"

\* C18 (as claimed): a listener whose AcceptTCP returned an error on the
\* closed socket has left its accept loop (Start has returned).
C18_StopEndsAccept ==
  \A l \in Listeners : acceptFailed[l] => lpc[l] = "returned"

\* C19 (as claimed): the listener reads totalClientConnections, for the
\* admission check and for the log line, only while it holds clientMutex,
\* and does not hold clientMutex while it waits in AcceptTCP.
C19_GuardedNeverAcrossIO ==
  \A l \in Listeners :
    /\ lpc[l] = "log" => clientMutex = l
    /\ lpc[l] = "accept" => clientMutex # l

\* C20 (as claimed): whenever clientMutex is free, totalClientConnections
\* is the number of entries of clientConnections and is not negative.
C20_CounterMatchesTable ==
  clientMutex = "free"
  => /\ totalClientConnections = Cardinality(clientConnections)
     /\ totalClientConnections >= 0

====
